---------------------------- MODULE Spec2Model ----------------------------
(***************************************************************************)
(* A model of the exif-ai request-to-metadata pipeline.                    *)
(*                                                                         *)
(*   SpecParse  parseMultipartData (src/src/server.ts 417-470) applied to  *)
(*              bounded multipart bodies.                                  *)
(*   SpecExec   execute (index.js, exercised by src/unnamed/part_000):     *)
(*              the metadata merge policy.                                 *)
(*   Spec       handleRequest (src/src/server.ts 473-655), one step per    *)
(*              suspension point, for two requests in flight.              *)
(*   SpecTags   the tag normalization of handleRequest (591-611) applied   *)
(*              to bounded raw tag texts.                                  *)
(*                                                                         *)
(* Byte strings are sequences of tokens.  A token is a TLA+ string that    *)
(* stands for one fixed run of bytes ("CR" is 0x0D, "image" is the five    *)
(* bytes i m a g e).  Every pattern the code searches for is a sequence of *)
(* whole tokens, and no token's bytes contain part of a pattern, so        *)
(* searching token sequences finds exactly the matches the code finds.     *)
(***************************************************************************)
EXTENDS Integers, Sequences, FiniteSets, TLC

VARIABLES
    req,        \* SpecParse: the IncomingMessage (content-type header, body)
    form,       \* SpecParse: the parts the body was built from
    outcome,    \* SpecParse: the promise parseMultipartData returned
    options,    \* SpecExec: the options execute was called with
    before,     \* SpecExec: the metadata document when execute was called
    document,   \* SpecExec: the metadata document of the image file
    exec,       \* SpecExec: execute's position and locals
    config,     \* Spec: the process-wide configuration read at startup
    handler,    \* Spec: per request, handleRequest's position and locals
    tmpFiles,   \* Spec: the requests whose temporary file exists
    normalizer  \* SpecTags: the raw tag text and the tags made from it

parseVars == <<req, form, outcome>>
execVars == <<options, before, document, exec>>
serverVars == <<config, handler, tmpFiles>>
tagVars == <<normalizer>>
vars == <<parseVars, execVars, serverVars, tagVars>>

---------------------------------------------------------------------------
(* Strings                                                                 *)

CR == "CR"
LF == "LF"
SP == "SP"
TAB == "TAB"
QUOTE == "QUOTE"
CRLF == <<CR, LF>>

\* The characters String.prototype.trim removes (of the bytes modelled).
WhiteSpace == {SP, TAB, CR, LF}

\* Whether sub occurs in s at index i.
OccursAt(s, sub, i) ==
    /\ i >= 1
    /\ i + Len(sub) - 1 <= Len(s)
    /\ \A k \in 1..Len(sub) : s[i + k - 1] = sub[k]

\* String.prototype.indexOf(sub, from), 1-based; 0 when there is none.
IndexOf(s, sub, from) ==
    LET hits == {i \in from..Len(s) : OccursAt(s, sub, i)}
    IN  IF hits = {} THEN 0 ELSE CHOOSE i \in hits : \A j \in hits : i <= j

\* String.prototype.includes
Includes(s, sub) == IndexOf(s, sub, 1) # 0

\* String.prototype.split with a non-empty string separator.
RECURSIVE Split(_, _)
Split(s, sep) ==
    LET i == IndexOf(s, sep, 1)
    IN  IF i = 0
        THEN <<s>>
        ELSE <<SubSeq(s, 1, i - 1)>> \o Split(SubSeq(s, i + Len(sep), Len(s)), sep)

\* Array.prototype.join
RECURSIVE Join(_, _)
Join(pieces, sep) ==
    IF Len(pieces) = 0 THEN <<>>
    ELSE IF Len(pieces) = 1 THEN pieces[1]
    ELSE pieces[1] \o sep \o Join(Tail(pieces), sep)

\* Array.prototype.slice(1)
Slice1(pieces) == IF Len(pieces) = 0 THEN <<>> ELSE Tail(pieces)

\* String.prototype.trim
RECURSIVE TrimStart(_)
TrimStart(s) ==
    IF Len(s) > 0 /\ s[1] \in WhiteSpace THEN TrimStart(Tail(s)) ELSE s

RECURSIVE TrimEnd(_)
TrimEnd(s) ==
    IF Len(s) > 0 /\ s[Len(s)] \in WhiteSpace
    THEN TrimEnd(SubSeq(s, 1, Len(s) - 1))
    ELSE s

Trim(s) == TrimEnd(TrimStart(s))

\* s.replace(/\r\n$/, "")
StripFinalCRLF(s) ==
    IF Len(s) >= 2 /\ s[Len(s) - 1] = CR /\ s[Len(s)] = LF
    THEN SubSeq(s, 1, Len(s) - 2)
    ELSE s

\* s.match(key + /"([^"]+)"/)[1], where key is the literal text before the
\* opening quote: the leftmost place where key, a quote, one or more
\* non-quote characters and a quote follow each other.  <<>> stands for null
\* (a match captures at least one character).
AttrMatch(s, key) ==
    LET pat == key \o <<QUOTE>>
        ok(i) == /\ OccursAt(s, pat, i)
                 /\ i + Len(pat) <= Len(s)
                 /\ s[i + Len(pat)] # QUOTE
                 /\ IndexOf(s, <<QUOTE>>, i + Len(pat)) # 0
        hits == {i \in 1..Len(s) : ok(i)}
        i0 == CHOOSE i \in hits : \A j \in hits : i <= j
    IN  IF hits = {} THEN <<>>
        ELSE SubSeq(s, i0 + Len(pat), IndexOf(s, <<QUOTE>>, i0 + Len(pat)) - 1)


---------------------------------------------------------------------------
(* Multipart bodies, as a form encoder writes them                         *)

CDFD == "Content-Disposition: form-data"
DASHES == "--"
BOUNDARY == <<"b">>
CRLFCRLF == <<CR, LF, CR, LF>>

\* The content-type header of a multipart request; <<>> is an absent header.
MultipartType == <<"multipart/form-data">>
WithBoundary(bd) == MultipartType \o <<"; ", "boundary=">> \o bd

\* ; key="value"
Attr(key, value) == <<"; ">> \o key \o <<QUOTE>> \o value \o <<QUOTE>>

NameKey == <<"name=">>
FilenameKey == <<"file", "name=">>

\* A part is what was appended to the form (kind, name, payload) and the
\* header lines it is sent with.
FilePart(name, filename, payload) ==
    [kind |-> "file", name |-> name, payload |-> payload,
     header |-> <<CDFD>> \o Attr(NameKey, name) \o Attr(FilenameKey, filename)
                \o CRLF \o <<"Content-Type: image/jpeg">>]

TextPart(name, payload) ==
    [kind |-> "text", name |-> name, payload |-> payload,
     header |-> <<CDFD>> \o Attr(NameKey, name)]

\* The filename attribute written before the name attribute.
FilenameFirstPart(name, filename, payload) ==
    [kind |-> "file-filename-first", name |-> name, payload |-> payload,
     header |-> <<CDFD>> \o Attr(FilenameKey, filename) \o Attr(NameKey, name)]

\* No name attribute.
UnnamedPart(filename, payload) ==
    [kind |-> "unnamed", name |-> <<>>, payload |-> payload,
     header |-> <<CDFD>> \o Attr(FilenameKey, filename)]

\* Not a form-data part.
ForeignPart(payload) ==
    [kind |-> "foreign", name |-> <<>>, payload |-> payload,
     header |-> <<"Content-Type: text/plain">>]

\* A form-data part whose only attribute is one that is neither name nor
\* filename.
AttributelessPart(payload) ==
    [kind |-> "unnamed-text", name |-> <<>>, payload |-> payload,
     header |-> <<CDFD>> \o Attr(<<"size=">>, <<"1">>)]

\* A part with no header block: the blank line follows the boundary line.
HeaderlessPart(payload) ==
    [kind |-> "headerless", name |-> <<>>, payload |-> payload, header |-> <<>>]

\* The header block of a part: its header lines, each ended by CR LF.
HeaderBlock(part) == IF part.header = <<>> THEN <<>> ELSE part.header \o CRLF

\* --boundary CRLF header-block CRLF payload CRLF, per part, then --boundary--
RECURSIVE EncodeParts(_, _)
EncodeParts(parts, bd) ==
    IF parts = <<>> THEN <<>>
    ELSE <<DASHES>> \o bd \o CRLF \o HeaderBlock(Head(parts)) \o CRLF
         \o Head(parts).payload \o CRLF \o EncodeParts(Tail(parts), bd)

EncodeForm(parts, bd) == EncodeParts(parts, bd) \o <<DASHES>> \o bd \o <<DASHES>> \o CRLF

---------------------------------------------------------------------------
(* parseMultipartData                                                      *)

\* A Record<string, T> with no keys.
EmptyRecord == [k \in {} |-> <<>>]

\* record[key] = value
Put(record, key, value) ==
    [k \in DOMAIN record \cup {key} |-> IF k = key THEN value ELSE record[k]]

\* req.headers["content-type"]?.split("boundary=")[1]; <<>> is undefined or "".
BoundaryOf(contentType) ==
    LET pieces == Split(contentType, <<"boundary=">>)
    IN  IF Len(pieces) >= 2 THEN pieces[2] ELSE <<>>

PartHeaders(part) == Split(part, CRLFCRLF)[1]

PartContent(part) == Trim(Join(Slice1(Split(part, CRLFCRLF)), CRLFCRLF))

\* The body of the for loop: acc is <<fields, files>>.
ParsePart(part, acc) ==
    IF ~Includes(part, <<CDFD>>) THEN acc
    ELSE LET headers == PartHeaders(part)
             content == PartContent(part)
             nameMatch == AttrMatch(headers, NameKey)
             filenameMatch == AttrMatch(headers, FilenameKey)
         IN  IF nameMatch = <<>> THEN acc
             ELSE IF filenameMatch # <<>>
                  THEN <<acc[1], Put(acc[2], nameMatch, StripFinalCRLF(content))>>
                  ELSE <<Put(acc[1], nameMatch, StripFinalCRLF(content)), acc[2]>>

RECURSIVE ParseParts(_, _)
ParseParts(parts, acc) ==
    IF parts = <<>> THEN acc
    ELSE ParseParts(Tail(parts), ParsePart(Head(parts), acc))

\* The promise's settlement once the request body has ended.
ParseMultipartData(r) ==
    LET boundary == BoundaryOf(r.contentType)
    IN  IF boundary = <<>>
        THEN [state |-> "rejected", error |-> "No boundary found in content-type",
              fields |-> EmptyRecord, files |-> EmptyRecord]
        ELSE LET parts == Split(r.body, <<DASHES>> \o boundary)
                 acc == ParseParts(parts, <<EmptyRecord, EmptyRecord>>)
             IN  [state |-> "resolved", error |-> "",
                  fields |-> acc[1], files |-> acc[2]]

Pending == [state |-> "pending", error |-> "", fields |-> EmptyRecord, files |-> EmptyRecord]

\* req.on("error", reject): the request stream failed before its end.
StreamError == "request stream error"

StreamFailed ==
    [state |-> "rejected", error |-> StreamError,
     fields |-> EmptyRecord, files |-> EmptyRecord]

---------------------------------------------------------------------------
(* SpecParse: parseMultipartData on bounded bodies                         *)

MaxPayloadLen == 4
MaxParts == 2

PayloadBytes == {SP, TAB, CR, LF, "x"}

RECURSIVE SeqsUpTo(_, _)
SeqsUpTo(S, n) ==
    IF n = 0 THEN {<<>>}
    ELSE LET shorter == SeqsUpTo(S, n - 1)
         IN  shorter \cup {Append(s, x) : s \in {t \in shorter : Len(t) = n - 1}, x \in S}

\* A payload with a blank line inside it.
InnerBlankLine == <<"x", CR, LF, CR, LF, "x">>

Payloads == SeqsUpTo(PayloadBytes, MaxPayloadLen) \cup {InnerBlankLine}

IMAGE == <<"image">>
TASKS_FIELD == <<"tasks">>

\* The parts a client may send, each with a fixed payload.
PartShapes ==
    { FilePart(IMAGE, <<"a.jpg">>, <<"x">>),
      TextPart(TASKS_FIELD, <<"description">>),
      TextPart(IMAGE, <<"y">>),
      FilenameFirstPart(IMAGE, <<"a.jpg">>, <<"x">>),
      UnnamedPart(<<"a.jpg">>, <<"x">>),
      AttributelessPart(<<"x">>),
      ForeignPart(<<"x">>),
      HeaderlessPart(<<"x">>) }

\* One image with every payload, one text field with every payload, and
\* every sequence of at most MaxParts part shapes.
Forms ==
    {<<FilePart(IMAGE, <<"a.jpg">>, p)>> : p \in Payloads}
    \cup {<<TextPart(TASKS_FIELD, p), FilePart(IMAGE, <<"a.jpg">>, <<"x">>)>> : p \in Payloads}
    \cup SeqsUpTo(PartShapes, MaxParts)

\* The variables of a specification that is not running.
ParseIdle ==
    /\ form = <<>>
    /\ req = [contentType |-> <<>>, body |-> <<>>]
    /\ outcome = Pending

ExecIdle ==
    /\ options = [tasks |-> {}]
    /\ before = EmptyRecord
    /\ document = EmptyRecord
    /\ exec = [pc |-> "idle"]

ServerIdle ==
    /\ config = [VERBOSE |-> FALSE]
    /\ handler = EmptyRecord
    /\ tmpFiles = {}

TagIdle == normalizer = [pc |-> "idle"]

InitParse ==
    /\ ExecIdle
    /\ ServerIdle
    /\ TagIdle
    /\ form \in Forms
    /\ \E ct \in {WithBoundary(BOUNDARY), MultipartType} :
           req = [contentType |-> ct, body |-> EncodeForm(form, BOUNDARY)]
    /\ outcome = Pending

\* req.on("end", ...): Buffer.concat(chunks) is the body, however it was
\* cut into chunks.
OnEnd ==
    /\ outcome.state = "pending"
    /\ outcome' = ParseMultipartData(req)
    /\ UNCHANGED <<req, form, execVars, serverVars, tagVars>>

\* req.on("error", reject)
OnError ==
    /\ outcome.state = "pending"
    /\ outcome' = StreamFailed
    /\ UNCHANGED <<req, form, execVars, serverVars, tagVars>>

NextParse == OnEnd \/ OnError

SpecParse == InitParse /\ [][NextParse]_vars


\* The parts of the form are what a form encoder sends for distinct fields:
\* files and text fields, the name attribute first.
WellFormed(f) ==
    /\ \A i \in 1..Len(f) : f[i].kind \in {"file", "text"}
    /\ \A i, j \in 1..Len(f) : f[i].name = f[j].name => i = j

FormEntries(f, kind) ==
    [n \in {f[i].name : i \in {j \in 1..Len(f) : f[j].kind = kind}} |->
        (CHOOSE q \in {f[i] : i \in 1..Len(f)} : q.kind = kind /\ q.name = n).payload]

HasBoundary == BoundaryOf(req.contentType) # <<>>

\* The body was received in full and the promise has settled.
Ended == outcome.state # "pending" /\ outcome.error # StreamError

\* C1: for every body built with a valid boundary token, the decoder returns
\* exactly the text fields and the file fields of the form, every payload
\* byte for byte, also one that begins or ends with whitespace bytes or that
\* contains CR LF CR LF.
C1_DecodeExact ==
    (Ended /\ HasBoundary /\ WellFormed(form)) =>
        /\ outcome.state = "resolved"
        /\ outcome.fields = FormEntries(form, "text")
        /\ outcome.files = FormEntries(form, "file")

\* What the code does keep: a payload that neither begins nor ends with a
\* whitespace byte is returned byte for byte, CR LF CR LF inside it included.
NoOuterWhiteSpace(f) ==
    \A i \in 1..Len(f) : f[i].payload = Trim(f[i].payload)

C1_ExactWithoutOuterWhiteSpace ==
    (Ended /\ HasBoundary /\ WellFormed(form) /\ NoOuterWhiteSpace(form)) =>
        /\ outcome.state = "resolved"
        /\ outcome.fields = FormEntries(form, "text")
        /\ outcome.files = FormEntries(form, "file")

C1_InnerBlankLineKept ==
    /\ outcome.state = "resolved"
    /\ form = <<FilePart(IMAGE, <<"a.jpg">>, InnerBlankLine)>>
    /\ outcome.files[IMAGE] = InnerBlankLine

\* The parts of the form at the positions whose kind is in kinds.
PartsOfKind(f, kinds) == {i \in 1..Len(f) : f[i].kind \in kinds}

\* C11: decoding a body in which no part has a header block fails with a
\* parse error; the decoder does not return an empty form (no fields, no
\* files) as a success in that case.
C11_HeaderlessBodyFails ==
    (/\ Ended
     /\ HasBoundary
     /\ form # <<>>
     /\ PartsOfKind(form, {"headerless"}) = 1..Len(form)) =>
        outcome.state = "rejected"

\* The parts of f whose kind is in kinds, in their order.
OnlyKinds(f, kinds) == SelectSeq(f, LAMBDA p : p.kind \in kinds)

\* Parts with the name attribute first, as a form encoder writes them.
WellFormedKinds == {"file", "text"}

\* Parts without a Content-Disposition: form-data header line.
UnknownKinds == {"foreign", "headerless"}

\* Parts whose Content-Disposition has no name attribute.
UnnamedKinds == {"unnamed", "unnamed-text"}

\* A body that mixes well-formed parts with malformed ones.
Mixed(f, malformed) ==
    /\ PartsOfKind(f, WellFormedKinds) # {}
    /\ PartsOfKind(f, malformed) # {}
    /\ PartsOfKind(f, WellFormedKinds \cup malformed) = 1..Len(f)

\* The decode returned the well-formed parts of the form and nothing else.
ReturnsWellFormedOnly ==
    /\ outcome.state = "resolved"
    /\ outcome.fields = FormEntries(OnlyKinds(form, WellFormedKinds), "text")
    /\ outcome.files = FormEntries(OnlyKinds(form, WellFormedKinds), "file")

\* C17: malformed or unknown parts never fail the decode: for a body that
\* mixes well-formed parts with parts lacking a Content-Disposition:
\* form-data header or a name attribute, the decode succeeds, returns every
\* well-formed part and omits the malformed ones.
C17_MalformedPartsOmitted ==
    (Ended /\ HasBoundary /\ Mixed(form, UnknownKinds \cup UnnamedKinds)) =>
        ReturnsWellFormedOnly

\* The same, for malformed parts that have no filename attribute either.
C17_OmittedWithoutFilename ==
    (Ended /\ HasBoundary /\ Mixed(form, UnknownKinds \cup {"unnamed-text"})) =>
        ReturnsWellFormedOnly

\* Parts that carry both a name and a filename attribute, in either order.
FileKinds == {"file", "file-filename-first"}

\* Every named part of the form is stored in the map of its class under
\* the value of its name attribute.
StoredUnderName(f) ==
    \A i \in 1..Len(f) :
        /\ f[i].kind \in FileKinds => f[i].name \in DOMAIN outcome.files
        /\ f[i].kind = "text" => f[i].name \in DOMAIN outcome.fields

\* C18: every part whose Content-Disposition carries a filename attribute
\* is stored as a file under the value of its name attribute, whatever the
\* order of the name and filename attributes, and every part without a
\* filename attribute is stored as a text field under its name.
C18_StoredUnderName ==
    (Ended /\ HasBoundary) => StoredUnderName(form)

\* The same, for parts whose name attribute comes first.
C18_StoredUnderNameWhenNameFirst ==
    (Ended /\ HasBoundary) => StoredUnderName(OnlyKinds(form, WellFormedKinds))

\* C19: after decoding any body, no field name is a key of both the
\* text-field map and the file map, also when two parts of the same name
\* are sent, one with a filename attribute and one without.
C19_TextOrFileNeverBoth ==
    Ended => DOMAIN outcome.fields \cap DOMAIN outcome.files = {}

\* The decode of the form without its parts of the given kinds.
DecodeWithout(kinds) ==
    ParseMultipartData(
        [req EXCEPT !.body =
            EncodeForm(OnlyKinds(form, {p.kind : p \in PartShapes} \ kinds), BOUNDARY)])

\* The decode has the entries it has without the parts of the given kinds.
AddNoEntry(kinds) ==
    /\ outcome.fields = DecodeWithout(kinds).fields
    /\ outcome.files = DecodeWithout(kinds).files

\* C20: unnamed parts are discarded: a part whose Content-Disposition has
\* no name attribute adds no entry to the text-field map or the file map,
\* also when the part has a filename attribute.
C20_UnnamedPartsDiscarded ==
    (Ended /\ HasBoundary /\ PartsOfKind(form, UnnamedKinds) # {}) =>
        AddNoEntry(UnnamedKinds)

\* The same, for unnamed parts that have no filename attribute either.
C20_DiscardedWithoutFilename ==
    (Ended /\ HasBoundary /\ PartsOfKind(form, {"unnamed-text"}) # {}) =>
        AddNoEntry({"unnamed-text"})


---------------------------------------------------------------------------
(* SpecExec: execute and the metadata merge policy                         *)
(*                                                                         *)
(* execute is imported from ../index.js by the tests of                    *)
(* src/unnamed/part_000; its steps are taken from sections 4.4 and 4.5 of  *)
(* the specification, its inputs from the tests.                           *)

\* baseOptions.descriptionTags
DescriptionFields == {"XPComment", "Description", "ImageDescription", "Caption-Abstract"}

\* The separate metadata slot the tags are written to.
TagSlot == "Subject"

\* What a field without a value reads as (the store's blank placeholder).
BLANK == "                               "

\* exiftool.write(resolvedPath, { XPComment: "Existing comment" })
ExistingComment == "Existing comment"

\* baseOptions.prompt
BasePrompt == "Describe image."
TagPrompt == "Tag image."

\* vi.doMock("provider1", ...): the one provider that can be loaded.
KnownProviders == {"provider1"}

\* The mocked getDescription and getTags return the prompt.
MockGenerate(prompt) == prompt

\* The outcomes of one generation call: the text the provider returns, or
\* "" for a failure (an unknown provider id, a rejection, a transport
\* failure), which is recorded and not raised.
GenerationOutcomes(provider, prompt) ==
    IF provider \in KnownProviders THEN {MockGenerate(prompt), ""} ELSE {""}

OverwritesAlways(doc, f, text, avoidOverwrite) == text # ""

OverwritesBlankOnly(doc, f, text, avoidOverwrite) == text # "" /\ doc[f] = BLANK

OverwritesWithEmpty(doc, f, text, avoidOverwrite) == avoidOverwrite => doc[f] = BLANK

\* Whether the merge writes text into field f of doc.
Overwrites(doc, f, text, avoidOverwrite) ==
    /\ text # ""
    /\ (avoidOverwrite => doc[f] = BLANK)

\* merge(document, generated, avoidOverwrite): fields are the targeted
\* description-bearing fields.
Merge(doc, fields, description, tags, avoidOverwrite) ==
    [f \in DOMAIN doc |->
        IF f \in fields /\ Overwrites(doc, f, description, avoidOverwrite)
            THEN description
        ELSE IF f = TagSlot /\ Overwrites(doc, f, tags, avoidOverwrite)
            THEN tags
        ELSE doc[f]]

RequestedAlways(task) == TRUE

\* Whether a task runs: it is in the requested task set.
Requested(task) == task \in options.tasks

PersistsAlways == TRUE

\* Whether the last step persists the merged document.
Persists == ~options.dry

TaskSets == SUBSET {"description", "tag"}

TargetSets == {DescriptionFields, {"XPComment", "Description"}, {"Description"}}

InitExec ==
    /\ ParseIdle
    /\ ServerIdle
    /\ TagIdle
    /\ document \in [DescriptionFields \cup {TagSlot} -> {BLANK, ExistingComment}]
    /\ before = document
    /\ options \in [provider : {"provider1", "invalid"},
                    descriptionTags : TargetSets,
                    tasks : TaskSets,
                    avoidOverwrite : BOOLEAN,
                    dry : BOOLEAN]
    /\ exec = [pc |-> "describe", description |-> "", tags |-> "",
               descriptionCalls |-> 0, tagCalls |-> 0,
               descriptionFailed |-> FALSE, merged |-> EmptyRecord]

\* The description task: skipped when not requested; a failure is recorded
\* and leaves the description empty.
ExecDescribe ==
    /\ exec.pc = "describe"
    /\ \/ /\ Requested("description")
          /\ \E text \in GenerationOutcomes(options.provider, BasePrompt) :
                exec' = [exec EXCEPT !.pc = "tag", !.description = text,
                                     !.descriptionCalls = @ + 1,
                                     !.descriptionFailed = (text = "")]
       \/ /\ ~Requested("description")
          /\ exec' = [exec EXCEPT !.pc = "tag"]
    /\ UNCHANGED <<options, before, document, parseVars, serverVars, tagVars>>

\* The tag task, independent of the description task.
ExecTag ==
    /\ exec.pc = "tag"
    /\ \/ /\ Requested("tag")
          /\ \E text \in GenerationOutcomes(options.provider, TagPrompt) :
                exec' = [exec EXCEPT !.pc = "merge", !.tags = text,
                                     !.tagCalls = @ + 1]
       \/ /\ ~Requested("tag")
          /\ exec' = [exec EXCEPT !.pc = "merge"]
    /\ UNCHANGED <<options, before, document, parseVars, serverVars, tagVars>>

\* Merge and persist: dry mode computes the would-be result (merged) and
\* writes nothing.
ExecWrite ==
    /\ exec.pc = "merge"
    /\ LET result == Merge(document, options.descriptionTags, exec.description,
                           exec.tags, options.avoidOverwrite)
       IN  /\ exec' = [exec EXCEPT !.pc = "done", !.merged = result]
           /\ document' = IF Persists THEN result ELSE document
    /\ UNCHANGED <<options, before, parseVars, serverVars, tagVars>>

NextExec == ExecDescribe \/ ExecTag \/ ExecWrite

SpecExec == InitExec /\ [][NextExec]_vars

ExecDone == exec.pc = "done"

Targeted(f) == f \in options.descriptionTags


\* The result of execute as its caller sees it: the would-be result in dry
\* mode, and the persisted document, equal to it, otherwise.
ResultIs(f, value) ==
    /\ exec.merged[f] = value
    /\ Persists => document[f] = value

\* C2: with avoidOverwrite=true, a targeted description-bearing field that
\* held a non-empty value before the call keeps it, and every targeted field
\* that was empty receives the generated description text.
C2_AvoidOverwriteKeeps ==
    (ExecDone /\ options.avoidOverwrite) =>
        \A f \in DescriptionFields :
            Targeted(f) =>
                /\ before[f] # BLANK => (ResultIs(f, before[f]) /\ document[f] = before[f])
                /\ (before[f] = BLANK /\ exec.description # "") =>
                       ResultIs(f, exec.description)

C2_Witness ==
    /\ ExecDone /\ options.avoidOverwrite /\ Persists
    /\ options.descriptionTags = DescriptionFields
    /\ before["XPComment"] = ExistingComment
    /\ document["XPComment"] = ExistingComment
    /\ \A f \in DescriptionFields \ {"XPComment"} :
           before[f] = BLANK /\ document[f] = BasePrompt

\* C3: with avoidOverwrite=false and a description generated, every targeted
\* description-bearing field equals the generated description text after the
\* merge, whatever it held before.
C3_DefaultOverwrites ==
    (ExecDone /\ ~options.avoidOverwrite /\ exec.description # "") =>
        \A f \in DescriptionFields :
            Targeted(f) => ResultIs(f, exec.description)

C3_Witness ==
    /\ ExecDone /\ ~options.avoidOverwrite /\ Persists
    /\ options.descriptionTags = DescriptionFields
    /\ \A f \in DescriptionFields :
           before[f] = ExistingComment /\ document[f] = BasePrompt

\* C4: in dry mode no field of the metadata document ever differs from its
\* value before the call, for either value of avoidOverwrite and any
\* generation outcome.
C4_DryNeverMutates ==
    options.dry => document = before

C4_Witness ==
    /\ ExecDone /\ options.dry /\ ~options.avoidOverwrite
    /\ exec.description = BasePrompt
    /\ exec.merged # before
    /\ document = before

\* C5: with an empty task set no generation call is made and every field of
\* the metadata document keeps its value, also with avoidOverwrite=false.
C5_NoTasksNoOp ==
    options.tasks = {} =>
        /\ exec.descriptionCalls = 0
        /\ exec.tagCalls = 0
        /\ document = before

C5_Witness ==
    /\ ExecDone /\ options.tasks = {} /\ ~options.avoidOverwrite /\ Persists
    /\ options.provider \in KnownProviders
    /\ before["XPComment"] = ExistingComment
    /\ document = before

\* C6: when the description generation fails, execute runs to its end and
\* every targeted description-bearing field keeps its value, also with
\* avoidOverwrite=false: a non-empty field is not overwritten with an empty
\* string and an empty field stays empty.
C6_FailureKeepsFields ==
    exec.descriptionFailed =>
        /\ exec.pc \in {"tag", "merge", "done"}
        /\ exec.description = ""
        /\ \A f \in DescriptionFields :
               Targeted(f) => (document[f] = before[f]
                               /\ (ExecDone => exec.merged[f] = before[f]))

C6_Witness ==
    /\ ExecDone /\ exec.descriptionFailed /\ ~options.avoidOverwrite /\ Persists
    /\ options.provider = "invalid"
    /\ before["XPComment"] = ExistingComment /\ document["XPComment"] = ExistingComment
    /\ before["Description"] = BLANK /\ document["Description"] = BLANK


---------------------------------------------------------------------------
(* Tag normalization (handleRequest, lines 589-611)                        *)
(*                                                                         *)
(* A tag text is a sequence of characters: SP, TAB, CR, LF for the         *)
(* whitespace characters, QUOTE, "APOSTROPHE" and "BACKTICK" for the quote *)
(* characters, "BULLET" for U+2022, and one-character strings.             *)

MaxTags == 20
MaxTagLen == 50
MaxWords == 2

\* A split pattern without the newline.
TagSeparatorsOnOneLine == {",", ";", "|"}

\* The split pattern: comma, newline, semicolon, pipe.
TagSeparators == {",", LF, ";", "|"}

Digits == {"0", "1", "2", "3", "4", "5", "6", "7", "8", "9"}

Letters ==
    {"a", "b", "c", "d", "e", "f", "g", "h", "i", "j", "k", "l", "m",
     "n", "o", "p", "q", "r", "s", "t", "u", "v", "w", "x", "y", "z",
     "A", "B", "C", "D", "E", "F", "G", "H", "I", "J", "K", "L", "M",
     "N", "O", "P", "Q", "R", "S", "T", "U", "V", "W", "X", "Y", "Z"}

\* \w
WordChars == Letters \cup Digits \cup {"_"}

\* The character class of the prefix pattern (line 598): asterisk, hyphen,
\* bullet, digit, full stop, closing brackets, greater-than and the quotes.
PrefixChars == {"*", "-", "BULLET", ".", ")", "]", "}", ">", QUOTE, "APOSTROPHE", "BACKTICK"} \cup Digits

\* The character class of the suffix pattern (line 599): asterisk, the
\* quotes, brackets, braces and angle brackets.
SuffixChars == {"*", QUOTE, "APOSTROPHE", "BACKTICK", "[", "{", "<", "]", "}", ">"}

\* String.prototype.split with a one-character class as the separator.
RECURSIVE SplitOnAny(_, _)
SplitOnAny(s, seps) ==
    LET hits == {i \in 1..Len(s) : s[i] \in seps}
        i0 == CHOOSE i \in hits : \A j \in hits : i <= j
    IN  IF hits = {} THEN <<s>>
        ELSE <<SubSeq(s, 1, i0 - 1)>> \o SplitOnAny(SubSeq(s, i0 + 1, Len(s)), seps)

RECURSIVE DropLeading(_, _)
DropLeading(s, class) ==
    IF Len(s) > 0 /\ s[1] \in class THEN DropLeading(Tail(s), class) ELSE s

RECURSIVE DropTrailing(_, _)
DropTrailing(s, class) ==
    IF Len(s) > 0 /\ s[Len(s)] \in class
    THEN DropTrailing(SubSeq(s, 1, Len(s) - 1), class)
    ELSE s

\* The first replace: a leading run of prefix characters and the
\* whitespace after it are removed.
StripPrefix(s) ==
    IF Len(s) > 0 /\ s[1] \in PrefixChars
    THEN DropLeading(DropLeading(s, PrefixChars), WhiteSpace)
    ELSE s

\* The second replace: a trailing run of suffix characters is removed.
StripSuffix(s) == DropTrailing(s, SuffixChars)

\* The third replace: every character that is neither a word character
\* nor whitespace becomes a space.
ReplaceNonWord(s) ==
    [i \in 1..Len(s) |-> IF s[i] \in WordChars \cup WhiteSpace THEN s[i] ELSE SP]

\* The fourth replace: every run of whitespace becomes one space.
RECURSIVE CollapseSpaces(_)
CollapseSpaces(s) ==
    IF Len(s) = 0 THEN <<>>
    ELSE IF s[1] \in WhiteSpace
         THEN <<SP>> \o CollapseSpaces(DropLeading(s, WhiteSpace))
         ELSE <<s[1]>> \o CollapseSpaces(Tail(s))

\* The map callback: clean one candidate.
CleanTag(tag) == Trim(CollapseSpaces(ReplaceNonWord(StripSuffix(StripPrefix(tag)))))

\* The number of pieces of tag split on a space.
WordCount(tag) == Len(Split(tag, <<SP>>))

\* A filter that drops the empty candidates only.
KeepTagNonEmpty(tag) == Len(tag) > 0

\* The filter callback.
KeepTag(tag) == Len(tag) > 0 /\ Len(tag) <= MaxTagLen /\ WordCount(tag) <= MaxWords

RECURSIVE MapTrim(_)
MapTrim(pieces) ==
    IF pieces = <<>> THEN <<>> ELSE <<Trim(Head(pieces))>> \o MapTrim(Tail(pieces))

RECURSIVE MapClean(_)
MapClean(pieces) ==
    IF pieces = <<>> THEN <<>> ELSE <<CleanTag(Head(pieces))>> \o MapClean(Tail(pieces))

RECURSIVE FilterKept(_)
FilterKept(pieces) ==
    IF pieces = <<>> THEN <<>>
    ELSE (IF KeepTag(Head(pieces)) THEN <<Head(pieces)>> ELSE <<>>)
         \o FilterKept(Tail(pieces))

\* .slice(0, 20)
SliceTo(pieces, n) == SubSeq(pieces, 1, IF Len(pieces) < n THEN Len(pieces) ELSE n)

\* The normalization with the list cut to its first 20 candidates before
\* the filter.
NormalizeTagsSliceFirst(tagsText) ==
    FilterKept(SliceTo(MapClean(MapTrim(SplitOnAny(tagsText, TagSeparators))), MaxTags))

\* tags, from tagsResult.text
NormalizeTags(tagsText) ==
    SliceTo(FilterKept(MapClean(MapTrim(SplitOnAny(tagsText, TagSeparators)))), MaxTags)

---------------------------------------------------------------------------
(* SpecTags: the tag normalization on bounded raw tag texts                *)

MaxTextLen == 4
MaxCandidates == 22

\* A letter, a digit, the underscore, the space, two separators, a
\* character of the prefix and suffix classes and one of neither.
TagAlphabet == {"a", "2", "_", SP, ",", LF, "*", "["}

ShortTexts == SeqsUpTo(TagAlphabet, MaxTextLen)

LetterList ==
    <<"a", "b", "c", "d", "e", "f", "g", "h", "i", "j", "k", "l", "m",
      "n", "o", "p", "q", "r", "s", "t", "u", "v", "w", "x", "y", "z">>

\* The first n letters, as a comma-separated list.
ListText(n) == Join([i \in 1..n |-> <<LetterList[i]>>], <<",", SP>>)

ListTexts == {ListText(n) : n \in 1..MaxCandidates}

Fill(ch, n) == [i \in 1..n |-> ch]

\* A candidate of exactly the longest length kept, and one longer.
LongTexts == {Fill("a", MaxTagLen), Fill("a", MaxTagLen + 1)}

MarkdownText == <<"*", SP, "M", "o", "u", "n", "t", "a", "i", "n", ",", SP, "*", "*", "S", "k", "y", "*", "*", LF, "N", "i", "g", "h", "t", SP, "s", "t", "a", "r", "s", SP, "a", "n", "d", SP, "c", "l", "o", "u", "d", "s">>
BracketedCount == <<"[", "2", SP, "c", "a", "t", "s", "]">>
RepeatedTag == <<"s", "k", "y", ",", SP, "s", "k", "y">>
ThreeWords == <<"a", SP, "b", SP, "c">>

\* More candidates than are kept, after one that is too long and one
\* that has too many words.
Overfull ==
    Fill("a", MaxTagLen + 1) \o <<",">> \o ThreeWords \o <<",">>
    \o ListText(MaxCandidates)

TagInputs ==
    ShortTexts \cup ListTexts \cup LongTexts
    \cup {MarkdownText, BracketedCount, RepeatedTag, ThreeWords, Overfull}

InitTags ==
    /\ ParseIdle
    /\ ExecIdle
    /\ ServerIdle
    /\ \E t \in TagInputs :
           normalizer = [pc |-> "raw", tagsText |-> t, tags |-> <<>>, again |-> <<>>]

\* tags = rawTags.map(...).filter(...).slice(0, 20)
Normalize ==
    /\ normalizer.pc = "raw"
    /\ normalizer' = [normalizer EXCEPT !.pc = "normalized",
                                         !.tags = NormalizeTags(normalizer.tagsText)]
    /\ UNCHANGED <<parseVars, execVars, serverVars>>

\* The tags, joined with commas, are normalized a second time.
Renormalize ==
    /\ normalizer.pc = "normalized"
    /\ normalizer' = [normalizer EXCEPT !.pc = "renormalized",
                          !.again = NormalizeTags(Join(normalizer.tags, <<",">>))]
    /\ UNCHANGED <<parseVars, execVars, serverVars>>

NextTags == Normalize \/ Renormalize

SpecTags == InitTags /\ [][NextTags]_vars

Normalized == normalizer.pc \in {"normalized", "renormalized"}

\* The candidates of the raw text, cleaned, before the filter.
Candidates == MapClean(MapTrim(SplitOnAny(normalizer.tagsText, TagSeparators)))

\* The whitespace-separated words of a text: the places where a run of
\* characters other than whitespace begins.
WordStarts(s) ==
    {i \in 1..Len(s) : s[i] \notin WhiteSpace /\ (i = 1 \/ s[i - 1] \in WhiteSpace)}

\* C12: for every raw tag text the normalized list has at most 20 entries,
\* and every entry is non-empty, at most 50 characters long and at most 2
\* whitespace-separated words.
C12_TagsBounded ==
    Normalized =>
        /\ Len(normalizer.tags) <= MaxTags
        /\ \A i \in 1..Len(normalizer.tags) :
               /\ normalizer.tags[i] # <<>>
               /\ Len(normalizer.tags[i]) <= MaxTagLen
               /\ Cardinality(WordStarts(normalizer.tags[i])) <= MaxWords

\* A text with more candidates than are kept, one of them too long and
\* one of too many words, has been normalized to a full list.
C12_Witness ==
    /\ normalizer.pc = "normalized"
    /\ Len(Candidates) > MaxTags
    /\ \E i \in 1..Len(Candidates) : Len(Candidates[i]) > MaxTagLen
    /\ \E i \in 1..Len(Candidates) :
           Cardinality(WordStarts(Candidates[i])) > MaxWords
    /\ Len(normalizer.tags) = MaxTags

\* C13: normalization is idempotent on its own output: normalizing the
\* comma-joined tags yields the same tag list, also when a surviving tag
\* begins with a digit.
C13_Idempotent ==
    normalizer.pc = "renormalized" => normalizer.again = normalizer.tags

\* The second normalization changes nothing when no tag begins with a
\* digit.
C13_IdempotentWithoutLeadingDigit ==
    (/\ normalizer.pc = "renormalized"
     /\ \A i \in 1..Len(normalizer.tags) : normalizer.tags[i][1] \notin Digits) =>
        normalizer.again = normalizer.tags

Mountain == <<"M", "o", "u", "n", "t", "a", "i", "n">>
Sky == <<"S", "k", "y">>
NightStars == <<"N", "i", "g", "h", "t", SP, "s", "t", "a", "r", "s">>

\* C14, as stated: the text "* Mountain, **Sky**" newline "Night stars and
\* clouds" is normalized to Mountain, Sky, Night stars, in that order.
C14_ScenarioAsStated ==
    (Normalized /\ normalizer.tagsText = MarkdownText) =>
        normalizer.tags = <<Mountain, Sky, NightStars>>

\* C14, amended: that text is normalized to Mountain, Sky, in that order,
\* the markup stripped; the candidate "Night stars and clouds" has four
\* words and is discarded by the filter.
C14_ScenarioYieldsTwoTags ==
    (Normalized /\ normalizer.tagsText = MarkdownText) =>
        normalizer.tags = <<Mountain, Sky>>

C14_Witness ==
    /\ normalizer.pc = "normalized"
    /\ normalizer.tagsText = MarkdownText
    /\ Len(Candidates) = Len(normalizer.tags) + 1

\* C15: the tag list produced by normalization is deduplicated: no two of
\* its entries are equal.
C15_NoDuplicates ==
    Normalized =>
        \A i, j \in 1..Len(normalizer.tags) :
            normalizer.tags[i] = normalizer.tags[j] => i = j

\* The text is made of characters of the class only, separated by single
\* spaces, with no space at either end.
SingleSpaced(s, class) ==
    /\ \A k \in 1..Len(s) : s[k] \in class \cup {SP}
    /\ \A k \in 1..Len(s) : s[k] = SP => (k > 1 /\ k < Len(s) /\ s[k + 1] # SP)

\* C21: every tag produced by normalization consists only of alphanumeric
\* characters separated by single spaces: no other character (no
\* punctuation, no underscore), no run of two or more spaces and no
\* leading or trailing space.
C21_AlphanumericOnly ==
    Normalized =>
        \A i \in 1..Len(normalizer.tags) :
            SingleSpaced(normalizer.tags[i], Letters \cup Digits)

\* The same, with the underscore counted among the characters of a tag.
C21_WordCharactersOnly ==
    Normalized =>
        \A i \in 1..Len(normalizer.tags) : SingleSpaced(normalizer.tags[i], WordChars)

\* The positions of the candidates that are non-empty, at most 50
\* characters long and at most 2 words.
SurvivorsOf(cands) ==
    {i \in 1..Len(cands) :
        /\ cands[i] # <<>>
        /\ Len(cands[i]) <= MaxTagLen
        /\ Cardinality(WordStarts(cands[i])) <= MaxWords}

\* The k-th smallest member of a set of positions.
Nth(S, k) == CHOOSE i \in S : Cardinality({j \in S : j <= i}) = k

\* C22: the normalized tag list is the first 20 surviving candidates in
\* their order of appearance in the raw text: candidates discarded by the
\* filter do not count toward the limit of 20, and the order of the
\* survivors is unchanged.
C22_FirstSurvivorsInOrder ==
    Normalized =>
        LET cands == Candidates
            survivors == SurvivorsOf(cands)
            kept == IF Cardinality(survivors) < MaxTags
                    THEN Cardinality(survivors) ELSE MaxTags
        IN  /\ Len(normalizer.tags) = kept
            /\ \A k \in 1..kept : normalizer.tags[k] = cands[Nth(survivors, k)]

\* A text whose first two candidates are discarded and that has more than
\* 20 survivors has been normalized.
C22_Witness ==
    /\ normalizer.pc = "normalized"
    /\ LET cands == Candidates
           survivors == SurvivorsOf(cands)
       IN  /\ {1, 2} \cap survivors = {}
           /\ Cardinality(survivors) > MaxTags
           /\ normalizer.tags[1] = cands[Nth(survivors, 1)]
           /\ normalizer.tags[MaxTags] = cands[Nth(survivors, MaxTags)]


---------------------------------------------------------------------------
(* Spec: handleRequest, one action per suspension point                    *)

\* The requests in flight; the event loop interleaves their handlers at
\* every await.
Reqs == {"r1", "r2"}

\* An absent error argument (undefined).
NoError == ""

\* TASKS when EXIF_AI_TASKS is not set.
DefaultTasks == <<<<"description">>, <<"tag">>>>

\* The configuration read from the environment at startup; <<>> is an unset
\* variable.
Configs ==
    [PROVIDER : {<<"ollama">>}, MODEL : {<<>>},
     DESCRIPTION_PROMPT : {<<>>}, TAG_PROMPT : {<<>>},
     TASKS : {DefaultTasks, <<<<"description">>>>},
     VERBOSE : BOOLEAN]

DefaultDescriptionPrompt == <<"Describe this image in detail.">>
DefaultTagPrompt == <<"Output only the most relevant one or two word tags separated by commas.">>

\* The provider ids the dispatch layer (./provider/ai-sdk.js) resolves.
ServerProviders == {<<"ollama">>, <<"openai">>, <<"google">>, <<"anthropic">>}

\* What a generation call settles with: a rejection (unknown provider id,
\* provider rejection, transport failure) or a result with one of texts.
ProviderResults(provider, texts) ==
    {[ok |-> FALSE, text |-> <<>>]}
    \cup (IF provider \in ServerProviders
          THEN {[ok |-> TRUE, text |-> t] : t \in texts}
          ELSE {})

\* descResult.text: a description, or no text.
DescriptionTexts == {<<"A cat on a sofa.">>, <<>>}

\* tagsResult.text
TagTexts == {<<"s", "k", "y", ",", SP, "*", "s", "e", "a">>, <<"-">>}

Request(method, path, contentType, f) ==
    [method |-> method, path |-> path, contentType |-> contentType, form |-> f]

NoRequest == Request("", "", <<>>, <<>>)

\* The body the request streams.
BodyOf(request) == EncodeForm(request.form, BOUNDARY)

ImagePart == FilePart(IMAGE, <<"a.jpg">>, <<"x">>)
PROVIDER_FIELD == <<"provider">>

ServerForms ==
    { <<>>,
      <<TextPart(IMAGE, <<"y">>)>>,
      <<ImagePart>>,
      <<ImagePart, TextPart(TASKS_FIELD, <<"description">>)>>,
      <<ImagePart, TextPart(TASKS_FIELD, <<"tag", ",", "tags">>)>>,
      <<ImagePart, TextPart(TASKS_FIELD, <<"description", ",", "description", ",", "tag">>)>>,
      <<ImagePart, TextPart(TASKS_FIELD, <<"none">>)>>,
      <<ImagePart, TextPart(PROVIDER_FIELD, <<"invalid">>)>>,
      <<ImagePart, TextPart(PROVIDER_FIELD, <<"openai">>), TextPart(TASKS_FIELD, <<"tags">>)>> }

Requests ==
    {Request(x[1], x[2], <<>>, <<>>) :
        x \in {<<"OPTIONS", "/process">>, <<"GET", "/health">>,
               <<"GET", "/process">>, <<"POST", "/other">>}}
    \cup {Request("POST", "/process", ct, <<ImagePart>>) :
            ct \in {<<>>, <<"application/json">>, MultipartType}}
    \cup {Request("POST", "/process", WithBoundary(BOUNDARY), f) : f \in ServerForms}

\* handleRequest before it is called.
Idle ==
    [pc |-> "idle", request |-> NoRequest,
     fields |-> EmptyRecord, files |-> EmptyRecord,
     requestTasks |-> <<>>, requestProvider |-> <<>>, requestModel |-> <<>>,
     requestDescriptionPrompt |-> <<>>, requestTagPrompt |-> <<>>,
     description |-> <<>>, tags |-> <<>>, rawTagsText |-> <<>>,
     descriptionOutcome |-> "none", tagsOutcome |-> "none",
     descriptionText |-> <<>>, calls |-> <<>>,
     decodeError |-> NoError, thrown |-> NoError, responses |-> <<>>]

\* sendResponse
SendResponse(h, statusCode, data) ==
    [h EXCEPT !.responses = Append(@, [status |-> statusCode, data |-> data])]

\* An error response that carries details whatever the mode.
SendErrorWithDetails(h, statusCode, message, error) ==
    SendResponse(h, statusCode, [error |-> message, details |-> error])

\* sendError: details only in verbose mode and only with an error argument.
SendError(h, statusCode, message, error) ==
    SendResponse(h, statusCode,
        IF config.VERBOSE /\ error # NoError
        THEN [error |-> message, details |-> error]
        ELSE [error |-> message])

\* return
Return(h) == [h EXCEPT !.pc = "done"]

\* The outer catch block (line 647).
CatchError(h, error) == Return(SendError(h, 500, "Internal server error", error))

\* fields.x, with <<>> for undefined.
Field(fields, key) == IF key \in DOMAIN fields THEN fields[key] ELSE <<>>

\* a || b
OrElse(a, b) == IF a # <<>> THEN a ELSE b

\* Array.prototype.includes
ArrayIncludes(array, x) == \E i \in 1..Len(array) : array[i] = x

\* The synchronous head of handleRequest, up to its first await.
Dispatch(h) ==
    IF h.request.method = "OPTIONS"
        THEN Return(SendResponse(h, 200, [message |-> "OK"]))
    ELSE IF h.request.path = "/health" /\ h.request.method = "GET"
        THEN [h EXCEPT !.pc = "health"]
    ELSE IF h.request.path = "/process" /\ h.request.method = "POST"
        THEN IF ~Includes(h.request.contentType, MultipartType)
             THEN Return(SendError(h, 400, "Content-Type must be multipart/form-data", NoError))
             ELSE [h EXCEPT !.pc = "parse"]
    ELSE Return(SendError(h, 404, "Not found", NoError))

RejectNoImageNoReturn(h) ==
    [SendError(h, 400, "No image file provided in 'image' field", NoError)
     EXCEPT !.pc = "write"]

\* The 400 for a form without an image file.
RejectNoImage(h) ==
    Return(SendError(h, 400, "No image file provided in 'image' field", NoError))

\* A handler that stores the request's overrides in the process-wide
\* configuration.
ConfigStoresOverrides(c, h) ==
    [c EXCEPT
        !.TASKS = IF Field(h.fields, <<"tasks">>) # <<>>
                  THEN Split(h.fields[<<"tasks">>], <<",">>) ELSE @,
        !.PROVIDER = OrElse(Field(h.fields, <<"provider">>), @)]

\* The process-wide configuration after a request's overrides were read:
\* lines 529-533 declare locals of the handler; PROVIDER, MODEL, TASKS and
\* the prompts are module constants (274-280) that nothing assigns.
ConfigAfterOverrides(c, h) == c

\* Lines 528-533: the request's overrides of the configuration.
Overrides(h) ==
    [h EXCEPT
        !.requestTasks = IF Field(h.fields, TASKS_FIELD) # <<>>
                         THEN Split(h.fields[TASKS_FIELD], <<",">>)
                         ELSE config.TASKS,
        !.requestProvider = OrElse(Field(h.fields, PROVIDER_FIELD), config.PROVIDER),
        !.requestModel = OrElse(Field(h.fields, <<"model">>), config.MODEL),
        !.requestDescriptionPrompt =
            OrElse(Field(h.fields, <<"descriptionPrompt">>), config.DESCRIPTION_PROMPT),
        !.requestTagPrompt = OrElse(Field(h.fields, <<"tagPrompt">>), config.TAG_PROMPT)]

\* A success response followed by an error thrown in the try block.
RespondThenThrows(h) ==
    [SendResponse(h, 200,
        [success |-> TRUE, description |-> h.description, tags |-> h.tags,
         rawTagsText |-> h.rawTagsText, provider |-> h.requestProvider,
         model |-> OrElse(h.requestModel, <<"default">>),
         tasks |-> h.requestTasks])
     EXCEPT !.pc = "unlink", !.thrown = "thrown after the response"]

\* The success response (lines 619-634), sent inside the try block; the
\* finally block follows.
Respond(h) ==
    [SendResponse(h, 200,
        [success |-> TRUE, description |-> h.description, tags |-> h.tags,
         rawTagsText |-> h.rawTagsText, provider |-> h.requestProvider,
         model |-> OrElse(h.requestModel, <<"default">>),
         tasks |-> h.requestTasks])
     EXCEPT !.pc = "unlink"]

\* The arguments of one generation call.
GenerationCall(task, h, prompt) ==
    [task |-> task, provider |-> h.requestProvider, model |-> h.requestModel,
     prompt |-> prompt]

\* The number of generation calls the handler made for a task.
Calls(h, task) == Cardinality({i \in 1..Len(h.calls) : h.calls[i].task = task})

\* The response sent as soon as the description task has settled, the tag
\* task still being called.
AfterDescriptionRespondsEarly(h) ==
    IF ArrayIncludes(h.requestTasks, <<"tag">>) \/ ArrayIncludes(h.requestTasks, <<"tags">>)
    THEN [Respond(h) EXCEPT !.pc = "tags",
                            !.calls = Append(@, GenerationCall("tag", h,
                                          OrElse(h.requestTagPrompt, DefaultTagPrompt)))]
    ELSE Respond(h)

\* Line 574: the tag task is called when requested, else the response is sent.
AfterDescription(h) ==
    IF ArrayIncludes(h.requestTasks, <<"tag">>) \/ ArrayIncludes(h.requestTasks, <<"tags">>)
    THEN [h EXCEPT !.pc = "tags",
                   !.calls = Append(@, GenerationCall("tag", h,
                                 OrElse(h.requestTagPrompt, DefaultTagPrompt)))]
    ELSE Respond(h)

\* Line 554: the description task is called when requested.
StartTasks(h) ==
    IF ArrayIncludes(h.requestTasks, <<"description">>)
    THEN [h EXCEPT !.pc = "describe",
                   !.calls = Append(@, GenerationCall("description", h,
                                 OrElse(h.requestDescriptionPrompt, DefaultDescriptionPrompt)))]
    ELSE AfterDescription(h)

\* A catch block that makes the description call again.
OnDescriptionErrorRetries(h) ==
    [h EXCEPT !.descriptionOutcome = "failed", !.pc = "describe",
              !.calls = Append(@, GenerationCall("description", h,
                            OrElse(h.requestDescriptionPrompt, DefaultDescriptionPrompt)))]

OnDescriptionErrorRethrows(h) ==
    [h EXCEPT !.descriptionOutcome = "failed", !.thrown = "ProviderError", !.pc = "unlink"]

\* The catch block of the description task (line 568): log and go on.
OnDescriptionError(h) == AfterDescription([h EXCEPT !.descriptionOutcome = "failed"])

\* The catch block of the tag task (line 614): log and go on.
OnTagsError(h) == Respond([h EXCEPT !.tagsOutcome = "failed"])

InitServer ==
    /\ ParseIdle
    /\ ExecIdle
    /\ TagIdle
    /\ config \in Configs
    /\ handler = [r \in Reqs |-> Idle]
    /\ tmpFiles = {}

\* createServer(handleRequest): a request arrives and its handler runs to
\* its first await.
HandleRequest(r) ==
    /\ handler[r].pc = "idle"
    /\ \E rq \in Requests :
          handler' = [handler EXCEPT ![r] = Dispatch([@ EXCEPT !.request = rq])]
    /\ UNCHANGED <<config, tmpFiles, parseVars, execVars, tagVars>>

\* await checkProviderHealth(): it catches its own errors.
HealthDone(r) ==
    /\ handler[r].pc = "health"
    /\ \E healthy \in (IF config.PROVIDER = <<"test">> THEN {TRUE} ELSE BOOLEAN) :
          handler' = [handler EXCEPT ![r] =
              Return(SendResponse(@, IF healthy THEN 200 ELSE 503,
                  [status |-> IF healthy THEN "healthy" ELSE "unhealthy",
                   provider |-> config.PROVIDER,
                   model |-> OrElse(config.MODEL, <<"default">>),
                   tasks |-> config.TASKS]))]
    /\ UNCHANGED <<config, tmpFiles, parseVars, execVars, tagVars>>

\* await parseMultipartData(req), then the image check and writeFile's call.
ParseDone(r) ==
    /\ handler[r].pc = "parse"
    /\ \E result \in {StreamFailed,
                       ParseMultipartData([contentType |-> handler[r].request.contentType,
                                           body |-> BodyOf(handler[r].request)])} :
       LET h == handler[r]
       IN  handler' = [handler EXCEPT ![r] =
               IF result.state = "rejected"
                    THEN CatchError([h EXCEPT !.decodeError = result.error], result.error)
               ELSE IF IMAGE \notin DOMAIN result.files
                    THEN RejectNoImage([h EXCEPT !.fields = result.fields,
                                                 !.files = result.files])
                    ELSE [h EXCEPT !.fields = result.fields, !.files = result.files,
                                   !.pc = "write"]]
    /\ UNCHANGED <<config, tmpFiles, parseVars, execVars, tagVars>>

\* await writeFile(tempFilePath, imageBuffer): it succeeds, or fails before
\* or after it created the file.
WriteDone(r) ==
    /\ handler[r].pc = "write"
    /\ \E result \in {"written", "failed", "failed, file created"} :
          /\ tmpFiles' = IF result = "failed" THEN tmpFiles ELSE tmpFiles \cup {r}
          /\ handler' = [handler EXCEPT ![r] =
                IF result = "written"
                THEN [Overrides(@) EXCEPT !.pc = "import"]
                ELSE CatchError(@, "writeFile failed")]
          /\ config' = IF result = "written"
                       THEN ConfigAfterOverrides(config, handler[r])
                       ELSE config
    /\ UNCHANGED <<parseVars, execVars, tagVars>>

\* await import("./provider/ai-sdk.js")
ImportDone(r) ==
    /\ handler[r].pc = "import"
    /\ \E ok \in BOOLEAN :
          handler' = [handler EXCEPT ![r] =
              IF ok THEN [@ EXCEPT !.pc = "read"]
              ELSE [@ EXCEPT !.thrown = "import failed", !.pc = "unlink"]]
    /\ UNCHANGED <<config, tmpFiles, parseVars, execVars, tagVars>>

\* await readFile(tempFilePath), then the first task's call.
ReadDone(r) ==
    /\ handler[r].pc = "read"
    /\ \E ok \in BOOLEAN :
          handler' = [handler EXCEPT ![r] =
              IF ok THEN StartTasks(@)
              ELSE [@ EXCEPT !.thrown = "readFile failed", !.pc = "unlink"]]
    /\ UNCHANGED <<config, tmpFiles, parseVars, execVars, tagVars>>

\* await getDescriptionWithUsage(...)
DescribeDone(r) ==
    /\ handler[r].pc = "describe"
    /\ \E result \in ProviderResults(handler[r].requestProvider, DescriptionTexts) :
          handler' = [handler EXCEPT ![r] =
              IF result.ok
              THEN AfterDescription([@ EXCEPT !.description = result.text,
                                              !.descriptionText = result.text,
                                              !.descriptionOutcome = "ok"])
              ELSE OnDescriptionError(@)]
    /\ UNCHANGED <<config, tmpFiles, parseVars, execVars, tagVars>>

\* await getTagsWithUsage(...), then the normalization and the response.
TagsDone(r) ==
    /\ handler[r].pc = "tags"
    /\ \E result \in ProviderResults(handler[r].requestProvider, TagTexts) :
          handler' = [handler EXCEPT ![r] =
              IF result.ok
              THEN Respond([@ EXCEPT !.rawTagsText = result.text,
                                     !.tags = NormalizeTags(result.text),
                                     !.tagsOutcome = "ok"])
              ELSE OnTagsError(@)]
    /\ UNCHANGED <<config, tmpFiles, parseVars, execVars, tagVars>>

\* The finally block: await unlink(tempFilePath), whose failure is logged;
\* then an error thrown in the try block reaches the outer catch.
UnlinkDone(r) ==
    /\ handler[r].pc = "unlink"
    /\ \E ok \in BOOLEAN :
          tmpFiles' = IF ok THEN tmpFiles \ {r} ELSE tmpFiles
    /\ handler' = [handler EXCEPT ![r] =
          IF @.thrown # NoError THEN CatchError(@, @.thrown) ELSE Return(@)]
    /\ UNCHANGED <<config, parseVars, execVars, tagVars>>

Next ==
    \E r \in Reqs :
        \/ HandleRequest(r)
        \/ HealthDone(r)
        \/ ParseDone(r)
        \/ WriteDone(r)
        \/ ImportDone(r)
        \/ ReadDone(r)
        \/ DescribeDone(r)
        \/ TagsDone(r)
        \/ UnlinkDone(r)

Spec == InitServer /\ [][Next]_vars


---------------------------------------------------------------------------
(* Claims about handleRequest                                              *)

IsProcess(rq) == rq.method = "POST" /\ rq.path = "/process"

TagRequested(h) ==
    ArrayIncludes(h.requestTasks, <<"tag">>) \/ ArrayIncludes(h.requestTasks, <<"tags">>)

\* The handler sent the success response, and nothing else.
SentResult(h) ==
    /\ Len(h.responses) = 1
    /\ h.responses[1].status = 200
    /\ h.responses[1].data.success

\* C7: once a generation call of a request has failed, no error response is
\* sent for it: the handler goes on and answers 200 with success=true, with
\* an empty description for a failed description task and an empty tag list
\* for a failed tag task.
C7_GenerationFailureDegrades ==
    \A r \in Reqs :
        LET h == handler[r]
        IN  (h.descriptionOutcome = "failed" \/ h.tagsOutcome = "failed") =>
                /\ h.pc \in {"tags", "unlink", "done"}
                /\ h.thrown = NoError
                /\ h.pc \in {"unlink", "done"} =>
                      /\ SentResult(h)
                      /\ h.descriptionOutcome = "failed" =>
                            h.responses[1].data.description = <<>>
                      /\ h.tagsOutcome = "failed" =>
                            h.responses[1].data.tags = <<>>
                /\ h.pc = "tags" => h.responses = <<>>

C7_Witness ==
    LET h == handler["r1"]
    IN  /\ h.pc = "done"
        /\ h.requestProvider = <<"invalid">>
        /\ h.descriptionOutcome = "failed" /\ h.tagsOutcome = "failed"
        /\ SentResult(h)
        /\ h.responses[1].data.description = <<>>
        /\ h.responses[1].data.tags = <<>>

\* C8: a failed description task does not keep a requested tag task from
\* being called and its tags from being returned, and a failed tag task
\* leaves the description that was produced as it is in the response.
C8_TaskFailuresIndependent ==
    \A r \in Reqs :
        LET h == handler[r]
        IN  /\ (h.descriptionOutcome = "failed" /\ TagRequested(h)) =>
                /\ Calls(h, "tag") = 1
                /\ h.pc \in {"tags", "unlink", "done"}
                /\ (h.tagsOutcome = "ok") =>
                      /\ SentResult(h)
                      /\ h.responses[1].data.tags = NormalizeTags(h.rawTagsText)
            /\ (h.tagsOutcome = "failed" /\ h.descriptionOutcome = "ok") =>
                /\ SentResult(h)
                /\ h.responses[1].data.description = h.descriptionText

C8_Witness ==
    /\ LET h == handler["r1"]
       IN  /\ h.pc = "done"
           /\ h.descriptionOutcome = "failed" /\ h.tagsOutcome = "ok"
           /\ SentResult(h)
           /\ h.responses[1].data.tags = <<<<"s", "k", "y">>, <<"s", "e", "a">>>>
    /\ LET h == handler["r2"]
       IN  /\ h.pc = "done"
           /\ h.descriptionOutcome = "ok" /\ h.tagsOutcome = "failed"
           /\ SentResult(h)
           /\ h.responses[1].data.description = <<"A cat on a sofa.">>

\* Why decode/validation rejects a POST /process request: the content type
\* is not multipart/form-data, it has no boundary, or the form has no file
\* part named image.
RejectionCause(rq) ==
    \/ ~Includes(rq.contentType, MultipartType)
    \/ BoundaryOf(rq.contentType) = <<>>
    \/ ~\E i \in 1..Len(rq.form) : rq.form[i].kind = "file" /\ rq.form[i].name = IMAGE

\* C9: a request rejected at decode/validation never reaches generation: no
\* generation call is ever made for a request with a cause of rejection, nor
\* for one that was answered 400.
C9_RejectedNeverGenerates ==
    \A r \in Reqs :
        LET h == handler[r]
        IN  ((IsProcess(h.request) /\ RejectionCause(h.request))
             \/ \E i \in 1..Len(h.responses) : h.responses[i].status = 400) =>
                /\ h.calls = <<>>
                /\ h.pc \in {"parse", "done"}

C9_Witness ==
    /\ LET h == handler["r1"]
       IN  /\ h.pc = "done"
           /\ BoundaryOf(h.request.contentType) # <<>>
           /\ RejectionCause(h.request)
           /\ Len(h.responses) = 1 /\ h.responses[1].status = 400
           /\ h.calls = <<>>
    /\ Calls(handler["r2"], "description") = 1

\* C10: a multipart decode failure on POST /process (multipart/form-data
\* without a boundary parameter) is answered with status 400, not 500.
C10_DecodeFailureIs400 ==
    \A r \in Reqs :
        LET h == handler[r]
        IN  (/\ h.pc = "done"
             /\ IsProcess(h.request)
             /\ Includes(h.request.contentType, MultipartType)
             /\ BoundaryOf(h.request.contentType) = <<>>
             /\ h.decodeError = "No boundary found in content-type") =>
                /\ Len(h.responses) = 1
                /\ h.responses[1].status = 400

\* The error responses sent so far: <<request, position in its responses>>.
ErrorResponses ==
    UNION {{<<r, i>> : i \in {j \in DOMAIN handler[r].responses :
                handler[r].responses[j].status \in {400, 404, 500}}} : r \in Reqs}

HasDetails(x) == "details" \in DOMAIN handler[x[1]].responses[x[2]].data

StatusOf(x) == handler[x[1]].responses[x[2]].status

\* C16, as stated: an error response carries details exactly when verbose
\* mode is on: with verbose off no 400, 404 or 500 response has details,
\* with verbose on every one of them has.
C16_DetailsIffVerbose ==
    \A x \in ErrorResponses : HasDetails(x) <=> config.VERBOSE

\* C16, amended: an error response carries details exactly when verbose
\* mode is on and the response is the 500 sent for a caught error; the 400
\* and 404 responses carry no details in either mode.
C16_DetailsIffVerboseCaughtError ==
    \A x \in ErrorResponses :
        HasDetails(x) <=> (config.VERBOSE /\ StatusOf(x) = 500)

\* In verbose mode one request was answered 500 with details and the other
\* 400 without.
C16_Witness ==
    /\ config.VERBOSE
    /\ \E x \in ErrorResponses : StatusOf(x) = 500 /\ HasDetails(x)
    /\ \E x \in ErrorResponses : StatusOf(x) = 400 /\ ~HasDetails(x)

Settled == {"ok", "failed"}

DescriptionRequested(h) == ArrayIncludes(h.requestTasks, <<"description">>)

\* C23: the response step is a barrier: for every request the result is
\* sent only after each requested task, description and tag, has reached
\* its outcome, success or failure degraded to empty; no response is sent
\* while a requested task is still pending.
C23_ResponseAfterTasks ==
    \A r \in Reqs :
        LET h == handler[r]
        IN  /\ h.pc \in {"describe", "tags"} => h.responses = <<>>
            /\ (/\ IsProcess(h.request)
                 /\ \E i \in 1..Len(h.responses) : h.responses[i].status = 200) =>
                    /\ DescriptionRequested(h) => h.descriptionOutcome \in Settled
                    /\ TagRequested(h) => h.tagsOutcome \in Settled

\* One request was answered after its description task failed and its tag
\* task succeeded, while the other, with both tasks requested, waits for
\* its tags.
C23_Witness ==
    \E r, q \in Reqs :
        /\ handler[r].descriptionOutcome = "failed"
        /\ handler[r].tagsOutcome = "ok"
        /\ SentResult(handler[r])
        /\ handler[q].pc = "tags"
        /\ handler[q].descriptionOutcome = "ok"
        /\ handler[q].responses = <<>>

\* C24: there is no retry: within one request the description generation
\* call is made at most once and the tag generation call at most once, also
\* after a failure, and also when the task list names a task more than once
\* or contains both tag and tags.
C24_NoRetry ==
    \A r \in Reqs :
        /\ Calls(handler[r], "description") <= 1
        /\ Calls(handler[r], "tag") <= 1

\* One request named description twice and its only description call
\* failed; the other named both tag and tags and its only tag call failed.
C24_Witness ==
    \E r, q \in Reqs :
        /\ handler[r].pc = "done"
        /\ Cardinality({i \in 1..Len(handler[r].requestTasks) :
               handler[r].requestTasks[i] = <<"description">>}) > 1
        /\ handler[r].descriptionOutcome = "failed"
        /\ Calls(handler[r], "description") = 1
        /\ handler[q].pc = "done"
        /\ ArrayIncludes(handler[q].requestTasks, <<"tag">>)
        /\ ArrayIncludes(handler[q].requestTasks, <<"tags">>)
        /\ handler[q].tagsOutcome = "failed"
        /\ Calls(handler[q], "tag") = 1

OverrideFields ==
    {TASKS_FIELD, PROVIDER_FIELD, <<"model">>, <<"descriptionPrompt">>, <<"tagPrompt">>}

\* The handler has read its overrides and is inside the try block.
Processing(h) == h.pc \in {"import", "read", "describe", "tags", "unlink"}

\* A request without override fields is processed with the process-wide
\* defaults, and reports them in its result.
DefaultsUsed ==
    \A r \in Reqs :
        LET h == handler[r]
        IN  (Processing(h) /\ DOMAIN h.fields \cap OverrideFields = {}) =>
                /\ h.requestTasks = config.TASKS
                /\ h.requestProvider = config.PROVIDER
                /\ h.requestModel = config.MODEL
                /\ h.requestDescriptionPrompt = config.DESCRIPTION_PROMPT
                /\ h.requestTagPrompt = config.TAG_PROMPT
                /\ \A i \in 1..Len(h.responses) :
                       h.responses[i].status = 200 =>
                           /\ h.responses[i].data.provider = config.PROVIDER
                           /\ h.responses[i].data.tasks = config.TASKS

\* C25: requests do not interfere through shared state: the process-wide
\* defaults (provider, model, task list, prompts) are never changed by
\* handling a request, so a request without override fields is processed
\* with the startup defaults whatever overrides other requests supplied.
C25_DefaultsNeverChange == [][config' = config]_vars /\ []DefaultsUsed

\* One request was processed with its own provider and task list, and the
\* other, without override fields, with the defaults.
C25_Witness ==
    \E r, q \in Reqs :
        /\ handler[r].pc = "done"
        /\ handler[r].requestProvider = <<"openai">>
        /\ handler[r].requestTasks = <<<<"tags">>>>
        /\ handler[r].requestTasks # config.TASKS
        /\ handler[q].pc = "unlink"
        /\ DOMAIN handler[q].fields \cap OverrideFields = {}
        /\ handler[q].requestProvider = config.PROVIDER
        /\ handler[q].requestTasks = config.TASKS
        /\ handler[q].thrown = NoError

\* C26: every temporary file created for a POST /process request is
\* deleted by the time handling of that request finishes, on every path
\* after its creation: both tasks succeed, either task fails, or an
\* unexpected error leads to a 500 response.
C26_TempFileDeleted ==
    \A r \in Reqs : handler[r].pc = "done" => r \notin tmpFiles

\* A handler finishes with its temporary file in place only out of the
\* finally block, whose unlink failed, or out of a writeFile that failed
\* after it created the file.
C26_LeftOnlyByFailedUnlinkOrWrite ==
    [][\A r \in Reqs :
          (handler[r].pc # "done" /\ handler'[r].pc = "done" /\ r \in tmpFiles') =>
              \/ handler[r].pc = "unlink"
              \/ handler[r].pc = "write" /\ r \notin tmpFiles]_vars

\* C27: handleRequest sends exactly one response per request on every path:
\* OPTIONS, GET /health (healthy or unhealthy), POST /process (rejected 400,
\* success 200, unexpected failure 500) and unknown routes (404) each write
\* one response, never zero and never two.
C27_ExactlyOneResponse ==
    \A r \in Reqs :
        /\ Len(handler[r].responses) <= 1
        /\ handler[r].pc = "done" => Len(handler[r].responses) = 1

\* One POST /process was answered 200 and has finished; the other threw
\* inside the try block and was answered 500 after the finally block.
C27_Witness ==
    \E r, q \in Reqs :
        /\ handler[r].pc = "done"
        /\ IsProcess(handler[r].request)
        /\ handler[r].calls # <<>>
        /\ handler[r].responses[1].status = 200
        /\ handler[q].pc = "done"
        /\ handler[q].thrown # NoError
        /\ Len(handler[q].responses) = 1
        /\ handler[q].responses[1].status = 500

============================================================================
